---- MODULE Spec2Model ----
(***************************************************************************)
(* Maternal Health Tracking System canister.                               *)
(*                                                                         *)
(* The repository holds two builds of the canister:                        *)
(*   v1.0.0  src/unnamed/part_000  (risk assessment, alerts, provider      *)
(*                                  check, serialised responses)           *)
(*   v1.1.0  src/src/index.ts      (sanitising, rate limit, role header,   *)
(*                                  profile check on metrics)              *)
(* Both declare the same five StableBTreeMaps and the same two POST        *)
(* routes.  `build` says which of the two is deployed; it never changes.   *)
(*                                                                         *)
(* A JavaScript object is a function from its own property names to their  *)
(* values: an absent property is a name outside the DOMAIN, and the spread *)
(* {...a, ...b} is Spread(a, b).                                           *)
(***************************************************************************)
EXTENDS Integers, Sequences, FiniteSets, TLC

VARIABLES
    build,                   \* "v1.0.0" | "v1.1.0"
    maternalProfileStorage,  \* StableBTreeMap(0): id -> MaternalProfile
    providerStorage,         \* StableBTreeMap(1): id -> HealthcareProvider
    metricsStorage,          \* StableBTreeMap(2): id -> HealthMetrics
    visitStorage,            \* StableBTreeMap(3): id -> PrenatalVisit
    alertStorage,            \* StableBTreeMap(4): id -> HealthAlert
    uuidCount,               \* identifiers handed out by uuidv4() so far
    response,                \* the answer to the latest request
    call                     \* a rule function's argument and result

vars == <<build, maternalProfileStorage, providerStorage, metricsStorage,
          visitStorage, alertStorage, uuidCount, response, call>>

stores == <<maternalProfileStorage, providerStorage, metricsStorage,
            visitStorage, alertStorage>>

(***************************************************************************)
(* Bounds.                                                                 *)
(***************************************************************************)
\* uuidv4() is called at most this many times in a behaviour.
MaxUuid == 2

(***************************************************************************)
(* JavaScript objects.                                                     *)
(***************************************************************************)
EmptyObject == [k \in {} |-> 0]

Has(o, k) == k \in DOMAIN o

\* {...a, ...b}: the properties of both, b's value where both have one.
Spread(a, b) ==
    [k \in (DOMAIN a) \cup (DOMAIN b) |-> IF k \in DOMAIN b THEN b[k] ELSE a[k]]

\* An object from a record of optional values: <<>> is absent, <<v>> is v.
Obj(raw) == [k \in {f \in DOMAIN raw : Len(raw[f]) = 1} |-> raw[k][1]]

\* map.insert(key, value): insert or overwrite.
Insert(map, key, value) ==
    [k \in (DOMAIN map) \cup {key} |-> IF k = key THEN value ELSE map[k]]

(***************************************************************************)
(* Strings.  A string is a sequence of runs <<class, n>>: n >= 1           *)
(* characters of one class, "a" a letter, " " white space, "<" an angle    *)
(* bracket.  "" is the empty sequence.                                     *)
(***************************************************************************)
RECURSIVE StrLen(_)
StrLen(s) == IF s = <<>> THEN 0 ELSE s[1][2] + StrLen(Tail(s))

RECURSIVE TrimStart(_)
TrimStart(s) ==
    IF s # <<>> /\ s[1][1] = " " THEN TrimStart(Tail(s)) ELSE s

RECURSIVE TrimEnd(_)
TrimEnd(s) ==
    IF s # <<>> /\ s[Len(s)][1] = " " THEN TrimEnd(SubSeq(s, 1, Len(s) - 1)) ELSE s

\* String.prototype.trim
Trim(s) == TrimEnd(TrimStart(s))

IsAngle(run) == run[1] = "<"

\* input.replace(/[<>]/g, '')
sanitizeString(input) == SelectSeq(input, LAMBDA run : ~IsAngle(run))

(***************************************************************************)
(* Values.  null is the string "null".  A timestamp property holds either  *)
(* a BigInt (days since the epoch stand for its nanoseconds) or a string   *)
(* the client sent.                                                        *)
(***************************************************************************)
null == "null"

BigInt(days) == [type |-> "bigint", days |-> days]

ClientString(text) == [type |-> "string", text |-> text]

\* BigInt(ic.time()): the canister clock.
IcTime == BigInt(20000)

\* new Date(dateString).getTime(): <<days>>, or <<>> for NaN.
DateGetTime(dateString) ==
    CASE dateString = "2024-12-25" -> <<20082>>
      [] dateString = "1970-01-01" -> <<0>>
      [] OTHER -> <<>>

\* Number(x) of a timestamp property is NaN for a string that is no number.
NumberIsNaN(x) == x.type = "string"

\* new Date(Number(x) / 1_000_000).toISOString() throws RangeError on NaN.
ToISOStringThrows(x) == NumberIsNaN(x)

\* JSON.stringify throws TypeError on a BigInt property.
JsonThrows(o, timeFields) ==
    \E k \in timeFields \cap DOMAIN o : o[k].type = "bigint"

(***************************************************************************)
(* Validation rules.                                                       *)
(***************************************************************************)
BloodTypes == {"A+", "A-", "B+", "B-", "AB+", "AB-", "O+", "O-"}

\* !profile.name, !profile.age, and metrics.x && (...)
NameFalsy(o) == ~Has(o, "name") \/ o.name = <<>>

AgeFalsy(o) == ~Has(o, "age") \/ o.age = 0

NumberTruthy(o, k) == Has(o, k) /\ o[k] # 0

\* v1.0.0 validateProfile
validateProfileV10(profile) ==
    IF NameFalsy(profile) \/ StrLen(Trim(profile.name)) < 2
    THEN "Name must be at least 2 characters long"
    ELSE IF AgeFalsy(profile) \/ profile.age < 16 \/ profile.age > 60
    THEN "Age must be between 16 and 60"
    ELSE IF ~Has(profile, "bloodType") \/ profile.bloodType \notin BloodTypes
    THEN "Invalid blood type"
    ELSE null

\* validateProfile with the blood type checked ahead of the age.
validateProfileBloodTypeFirst(profile) ==
    IF NameFalsy(profile) \/ StrLen(Trim(profile.name)) < 2
                          \/ StrLen(profile.name) > 100
    THEN "Name must be between 2 and 100 characters"
    ELSE IF ~Has(profile, "bloodType") \/ profile.bloodType \notin BloodTypes
    THEN "Invalid blood type"
    ELSE IF AgeFalsy(profile) \/ profile.age < 16 \/ profile.age > 60
    THEN "Age must be between 16 and 60"
    ELSE null

\* v1.1.0 validateProfile
validateProfileV11(profile) ==
    IF NameFalsy(profile) \/ StrLen(Trim(profile.name)) < 2
                          \/ StrLen(profile.name) > 100
    THEN "Name must be between 2 and 100 characters"
    ELSE IF AgeFalsy(profile) \/ profile.age < 16 \/ profile.age > 60
    THEN "Age must be between 16 and 60"
    ELSE IF ~Has(profile, "bloodType") \/ profile.bloodType \notin BloodTypes
    THEN "Invalid blood type"
    ELSE null

\* v1.0.0 validateHealthMetrics
validateHealthMetricsV10(metrics) ==
    IF NumberTruthy(metrics, "bloodPressureSystolic")
       /\ (metrics.bloodPressureSystolic < 70 \/ metrics.bloodPressureSystolic > 190)
    THEN "Invalid systolic blood pressure range"
    ELSE IF NumberTruthy(metrics, "bloodPressureDiastolic")
       /\ (metrics.bloodPressureDiastolic < 40 \/ metrics.bloodPressureDiastolic > 120)
    THEN "Invalid diastolic blood pressure range"
    ELSE IF NumberTruthy(metrics, "bloodSugar")
       /\ (metrics.bloodSugar < 30 \/ metrics.bloodSugar > 500)
    THEN "Invalid blood sugar range"
    ELSE null

\* v1.1.0 validateHealthMetrics
validateHealthMetricsV11(metrics) ==
    IF NumberTruthy(metrics, "bloodPressureSystolic")
       /\ (metrics.bloodPressureSystolic < 70 \/ metrics.bloodPressureSystolic > 190)
    THEN "Invalid systolic blood pressure range"
    ELSE IF NumberTruthy(metrics, "bloodPressureDiastolic")
       /\ (metrics.bloodPressureDiastolic < 40 \/ metrics.bloodPressureDiastolic > 120)
    THEN "Invalid diastolic blood pressure range"
    ELSE null

(***************************************************************************)
(* Risk assessment and alerting (v1.0.0).  A comparison with an absent     *)
(* (undefined) property is false.                                          *)
(***************************************************************************)
\* assessRisk with the systolic threshold exclusive.
assessRiskSystolicExclusive(metrics) ==
    \/ (Has(metrics, "bloodPressureSystolic") /\ metrics.bloodPressureSystolic > 140)
    \/ (Has(metrics, "bloodPressureDiastolic") /\ metrics.bloodPressureDiastolic >= 90)
    \/ (Has(metrics, "bloodSugar") /\ metrics.bloodSugar > 140)
    \/ (Has(metrics, "hemoglobinLevels") /\ metrics.hemoglobinLevels < 9)

assessRisk(metrics) ==
    \/ (Has(metrics, "bloodPressureSystolic") /\ metrics.bloodPressureSystolic >= 140)
    \/ (Has(metrics, "bloodPressureDiastolic") /\ metrics.bloodPressureDiastolic >= 90)
    \/ (Has(metrics, "bloodSugar") /\ metrics.bloodSugar > 140)
    \/ (Has(metrics, "hemoglobinLevels") /\ metrics.hemoglobinLevels < 9)

\* The alert createHighRiskAlert builds; a property read off metrics that
\* metrics lacks is left out (undefined).
HighRiskAlert(metrics, id) ==
    Spread(
        Spread(
            [id |-> id,
             createdAt |-> IcTime,
             severity |-> "HIGH",
             description |-> "Abnormal health metrics detected",
             recommendedAction |-> "Immediate medical review required",
             resolved |-> FALSE,
             resolvedAt |-> null,
             escalationLevel |-> 1],
            IF Has(metrics, "maternalProfileId")
            THEN [maternalProfileId |-> metrics.maternalProfileId] ELSE EmptyObject),
        IF Has(metrics, "recordedById")
        THEN [providerId |-> metrics.recordedById] ELSE EmptyObject)

\* createHighRiskAlert: alertStorage after the insert under a fresh uuid.
createHighRiskAlert(alerts, metrics, id) ==
    Insert(alerts, id, HighRiskAlert(metrics, id))

\* serializeProfile / serializeMetrics throw when a timestamp is no number.
serializeProfileThrows(profile) ==
    \E k \in {"dueDate", "createdAt", "lastUpdated"} : ToISOStringThrows(profile[k])

serializeMetricsThrows(metrics) == ToISOStringThrows(metrics.recordedAt)

(***************************************************************************)
(* Requests.  The bodies a client may send: every property is drawn from a *)
(* small set, <<>> standing for a property the body leaves out.            *)
(***************************************************************************)
Letters(n) == <<<<"a", n>>>>

\* "J", "Jane Doe", "<Jane>"
ReqNames == {<<Letters(1)>>, <<Letters(8)>>,
             <<(<<<<"<", 1>>, <<"a", 4>>, <<"<", 1>>>>)>>}

ReqAges == {<<15>>, <<28>>}

ReqBloodTypes == {<<"O+">>}

ReqDueDates == {<<"2024-12-25">>, <<"not-a-date">>}

\* 101 is an active provider, 102 an inactive one, 103 is nobody.
ProviderRefs == {101, 102, 103}

\* Identifiers a client may put in a body: one of its own making (0) or a key
\* that is already in the collection.
ClientIds(map) == {0} \cup DOMAIN map

\* An identifier that is no key of any collection.
UnknownIds == {404}

Roles == {"admin", "provider"}

ProfileBodies ==
    { Obj(raw) : raw \in
        [name : ReqNames, age : ReqAges, bloodType : ReqBloodTypes,
         dueDate : ReqDueDates,
         primaryCareProviderId : {<<p>> : p \in ProviderRefs},
         riskLevel : {<<>>, <<"HIGH">>},
         id : {<<>>} \cup {<<i>> : i \in ClientIds(maternalProfileStorage)},
         createdAt : {<<>>, <<ClientString("yesterday")>>}] }

MetricsBodies ==
    { Obj(raw) : raw \in
        [maternalProfileId :
            {<<i>> : i \in UnknownIds \cup DOMAIN maternalProfileStorage},
         recordedById : {<<p>> : p \in ProviderRefs},
         bloodPressureSystolic : {<<0>>, <<120>>, <<150>>, <<200>>},
         bloodPressureDiastolic : {<<80>>},
         bloodSugar : {<<95>>, <<600>>},
         hemoglobinLevels : {<<12>>},
         isFlaggedForReview : {<<>>, <<TRUE>>},
         id : {<<>>} \cup {<<i>> : i \in ClientIds(metricsStorage)},
         recordedAt : {<<>>, <<ClientString("yesterday")>>}] }

(***************************************************************************)
(* Responses.                                                              *)
(***************************************************************************)
Response(op, status, error) == [op |-> op, status |-> status, error |-> error]

Respond(op, status, error) == response' = Response(op, status, error)

\* uuidv4(): an identifier never handed out before.
uuidv4(n) == uuidCount + n

(***************************************************************************)
(* POST /maternal-profiles                                                 *)
(***************************************************************************)
\* v1.0.0
CreateProfileV10(body) ==
    LET validationError == validateProfileV10(body)
        pid == body.primaryCareProviderId
        time == DateGetTime(IF Has(body, "dueDate") THEN body.dueDate ELSE "undefined")
        profile ==
            Spread(Spread([id |-> uuidv4(1),
                           createdAt |-> IcTime,
                           lastUpdated |-> IcTime,
                           currentTrimester |-> "FIRST",
                           riskLevel |-> "LOW",
                           medicalHistory |-> <<>>,
                           allergies |-> <<>>,
                           isHighRiskPregnancy |-> FALSE],
                          body),
                   [dueDate |-> BigInt(time[1])])
    IN  /\ build = "v1.0.0"
        /\ UNCHANGED <<build, providerStorage, metricsStorage, visitStorage,
                       alertStorage, call>>
        /\ IF validationError # null
           THEN /\ Respond("createProfile", 400, validationError)
                /\ UNCHANGED <<maternalProfileStorage, uuidCount>>
           ELSE IF pid \notin DOMAIN providerStorage
           THEN /\ Respond("createProfile", 404, "Healthcare provider not found")
                /\ UNCHANGED <<maternalProfileStorage, uuidCount>>
           ELSE IF ~providerStorage[pid].isActive
           THEN /\ Respond("createProfile", 400,
                           "Selected healthcare provider is not active")
                /\ UNCHANGED <<maternalProfileStorage, uuidCount>>
           ELSE IF time = <<>>
           THEN \* BigInt(NaN) throws RangeError inside the object literal
                /\ uuidCount' = uuidv4(1)
                /\ Respond("createProfile", 500, "Internal server error")
                /\ UNCHANGED maternalProfileStorage
           ELSE /\ uuidCount' = uuidv4(1)
                /\ maternalProfileStorage' =
                       Insert(maternalProfileStorage, profile.id, profile)
                /\ IF serializeProfileThrows(profile)
                   THEN Respond("createProfile", 500, "Internal server error")
                   ELSE Respond("createProfile", 200, "")

\* parseDateToBigInt: null for an invalid date
parseDateToBigInt(dateString) ==
    LET time == DateGetTime(dateString)
    IN  IF time = <<>> THEN <<>> ELSE <<BigInt(time[1])>>

\* if (req.body.name) req.body.name = sanitizeString(req.body.name)
SanitizedBody(body) ==
    IF NameFalsy(body) THEN body
    ELSE [body EXCEPT !.name = sanitizeString(body.name)]

\* authorize(requiredRole)
authorize(requiredRole, role) == role = requiredRole

\* v1.1.0, past the limiter
CreateProfileV11(role, body0) ==
    LET body == SanitizedBody(body0)
        validationError == validateProfileV11(body)
        dueDate == parseDateToBigInt(
                       IF Has(body, "dueDate") THEN body.dueDate ELSE "undefined")
        profile ==
            Spread(Spread([id |-> uuidv4(1),
                           createdAt |-> IcTime,
                           lastUpdated |-> IcTime,
                           medicalHistory |-> <<>>,
                           allergies |-> <<>>,
                           isHighRiskPregnancy |-> FALSE],
                          body),
                   [dueDate |-> dueDate[1]])
    IN  /\ build = "v1.1.0"
        /\ UNCHANGED <<build, providerStorage, metricsStorage, visitStorage,
                       alertStorage, call>>
        /\ IF ~authorize("admin", role)
           THEN /\ Respond("createProfile", 403, "Forbidden")
                /\ UNCHANGED <<maternalProfileStorage, uuidCount>>
           ELSE IF validationError # null
           THEN /\ Respond("createProfile", 400, validationError)
                /\ UNCHANGED <<maternalProfileStorage, uuidCount>>
           ELSE IF dueDate = <<>> \/ dueDate[1].days = 0
           THEN \* !dueDate: null, or the BigInt 0n
                /\ Respond("createProfile", 400, "Invalid date format for dueDate")
                /\ UNCHANGED <<maternalProfileStorage, uuidCount>>
           ELSE /\ uuidCount' = uuidv4(1)
                /\ maternalProfileStorage' =
                       Insert(maternalProfileStorage, profile.id, profile)
                /\ IF JsonThrows(profile, {"dueDate", "createdAt", "lastUpdated"})
                   THEN Respond("createProfile", 500, "Internal server error")
                   ELSE Respond("createProfile", 200, "")

(***************************************************************************)
(* POST /health-metrics                                                    *)
(***************************************************************************)
\* v1.0.0
RecordMetricsV10(body) ==
    LET validationError == validateHealthMetricsV10(body)
        metrics0 == Spread([id |-> uuidv4(1),
                            recordedAt |-> IcTime,
                            isFlaggedForReview |-> FALSE],
                           body)
        isHighRisk == assessRisk(metrics0)
        metrics == IF isHighRisk
                   THEN [metrics0 EXCEPT !.isFlaggedForReview = TRUE]
                   ELSE metrics0
    IN  /\ build = "v1.0.0"
        /\ UNCHANGED <<build, maternalProfileStorage, providerStorage,
                       visitStorage, call>>
        /\ IF validationError # null
           THEN /\ Respond("recordMetrics", 400, validationError)
                /\ UNCHANGED <<metricsStorage, alertStorage, uuidCount>>
           ELSE /\ IF isHighRisk
                   THEN /\ alertStorage' =
                               createHighRiskAlert(alertStorage, metrics, uuidv4(2))
                        /\ uuidCount' = uuidv4(2)
                   ELSE /\ UNCHANGED alertStorage
                        /\ uuidCount' = uuidv4(1)
                /\ metricsStorage' = Insert(metricsStorage, metrics.id, metrics)
                /\ IF serializeMetricsThrows(metrics)
                   THEN Respond("recordMetrics", 500, "Failed to record health metrics")
                   ELSE Respond("recordMetrics", 200, "")

\* v1.1.0, past the limiter
RecordMetricsV11(role, body) ==
    LET validationError == validateHealthMetricsV11(body)
        metrics == Spread([id |-> uuidv4(1),
                           recordedAt |-> IcTime,
                           isFlaggedForReview |-> FALSE],
                          body)
    IN  /\ build = "v1.1.0"
        /\ UNCHANGED <<build, maternalProfileStorage, providerStorage,
                       visitStorage, alertStorage, call>>
        /\ IF ~authorize("provider", role)
           THEN /\ Respond("recordMetrics", 403, "Forbidden")
                /\ UNCHANGED <<metricsStorage, uuidCount>>
           ELSE IF body.maternalProfileId \notin DOMAIN maternalProfileStorage
           THEN /\ Respond("recordMetrics", 404, "Maternal profile not found")
                /\ UNCHANGED <<metricsStorage, uuidCount>>
           ELSE IF validationError # null
           THEN /\ Respond("recordMetrics", 400, validationError)
                /\ UNCHANGED <<metricsStorage, uuidCount>>
           ELSE /\ uuidCount' = uuidv4(1)
                /\ metricsStorage' = Insert(metricsStorage, metrics.id, metrics)
                /\ IF JsonThrows(metrics, {"recordedAt"})
                   THEN Respond("recordMetrics", 500, "Failed to record health metrics")
                   ELSE Respond("recordMetrics", 200, "")

\* v1.1.0: the limiter answers in the handler's place once the window's 100
\* requests are spent; the window's clock is outside the canister's state.
RateLimited(op) ==
    /\ build = "v1.1.0"
    /\ Respond(op, 429, "Too many requests, please try again later.")
    /\ UNCHANGED <<build, stores, uuidCount, call>>

(***************************************************************************)
(* The canister.                                                           *)
(***************************************************************************)
EmptyMap == [k \in {} |-> EmptyObject]

Provider(id, isActive) == [id |-> id, isActive |-> isActive]

\* Neither build has a route that writes providerStorage: the providers are
\* whatever stable memory 1 holds when the canister starts.
SeedProviders == (101 :> Provider(101, TRUE)) @@ (102 :> Provider(102, FALSE))

NoCall == [fn |-> "none"]

Init ==
    /\ build \in {"v1.0.0", "v1.1.0"}
    /\ maternalProfileStorage = EmptyMap
    /\ providerStorage \in {EmptyMap, SeedProviders}
    /\ metricsStorage = EmptyMap
    /\ visitStorage = EmptyMap
    /\ alertStorage = EmptyMap
    /\ uuidCount = 0
    /\ response = Response("none", 0, "")
    /\ call = NoCall

PostMaternalProfilesV10 ==
    /\ uuidCount + 1 <= MaxUuid
    /\ \E body \in ProfileBodies : CreateProfileV10(body)

PostMaternalProfilesV11 ==
    /\ uuidCount + 1 <= MaxUuid
    /\ \E role \in Roles, body \in ProfileBodies : CreateProfileV11(role, body)

PostHealthMetricsV10 ==
    /\ uuidCount + 2 <= MaxUuid
    /\ \E body \in MetricsBodies : RecordMetricsV10(body)

PostHealthMetricsV11 ==
    /\ uuidCount + 1 <= MaxUuid
    /\ \E role \in Roles, body \in MetricsBodies : RecordMetricsV11(role, body)

TooManyRequests == \E op \in {"createProfile", "recordMetrics"} : RateLimited(op)

Next ==
    \/ PostMaternalProfilesV10
    \/ PostMaternalProfilesV11
    \/ PostHealthMetricsV10
    \/ PostHealthMetricsV11
    \/ TooManyRequests

Spec == Init /\ [][Next]_vars

(***************************************************************************)
(* The rule functions on their own: Init draws an argument, the one step   *)
(* applies the function to it.                                             *)
(***************************************************************************)
Pending(fn, arg) == [fn |-> fn, arg |-> arg]

Returned(c, ret) == [fn |-> c.fn, arg |-> c.arg, ret |-> ret]

HasReturned(fn) == call.fn = fn /\ Has(call, "ret")

Idle ==
    /\ maternalProfileStorage = EmptyMap
    /\ providerStorage = EmptyMap
    /\ metricsStorage = EmptyMap
    /\ visitStorage = EmptyMap
    /\ alertStorage = EmptyMap
    /\ uuidCount = 0
    /\ response = Response("none", 0, "")

AssessInputs ==
    { Obj(raw) : raw \in
        [bloodPressureSystolic : {<<>>, <<0>>, <<139>>, <<140>>, <<141>>},
         bloodPressureDiastolic : {<<>>, <<89>>, <<90>>, <<91>>},
         bloodSugar : {<<>>, <<139>>, <<140>>, <<141>>},
         hemoglobinLevels : {<<>>, <<8>>, <<9>>, <<10>>}] }

InitAssess ==
    /\ Idle
    /\ build = "v1.0.0"
    /\ call \in {Pending("assessRisk", m) : m \in AssessInputs}

CallAssessRisk ==
    /\ call.fn = "assessRisk"
    /\ ~Has(call, "ret")
    /\ call' = Returned(call, assessRisk(call.arg))
    /\ UNCHANGED <<build, stores, uuidCount, response>>

NextAssess == CallAssessRisk

SpecAssess == InitAssess /\ [][NextAssess]_vars

(***************************************************************************)
(* C1: assessRisk answers high-risk exactly for a record with systolic BP  *)
(* >= 140, or diastolic BP >= 90, or blood sugar > 140, or hemoglobin < 9; *)
(* one breach is enough, and the record at the boundary (139, 89, 140, 9)  *)
(* is normal.                                                              *)
(***************************************************************************)
Breaches(m) ==
    { k \in DOMAIN m :
        \/ k = "bloodPressureSystolic" /\ ~(m[k] < 140)
        \/ k = "bloodPressureDiastolic" /\ ~(m[k] < 90)
        \/ k = "bloodSugar" /\ ~(m[k] <= 140)
        \/ k = "hemoglobinLevels" /\ ~(m[k] >= 9) }

Boundary ==
    [bloodPressureSystolic |-> 139, bloodPressureDiastolic |-> 89,
     bloodSugar |-> 140, hemoglobinLevels |-> 9]

C1_AssessRiskThresholds ==
    HasReturned("assessRisk") =>
        /\ call.ret = (Breaches(call.arg) # {})
        /\ (call.arg = Boundary => call.ret = FALSE)

\* A record whose only breach is the systolic pressure at exactly 140.
C1_Witness ==
    /\ HasReturned("assessRisk")
    /\ call.arg = [Boundary EXCEPT !.bloodPressureSystolic = 140]
    /\ call.ret = TRUE

(***************************************************************************)
(* validateProfile and validateHealthMetrics on their own.                 *)
(***************************************************************************)
\* absent, "", "J", "Ja", " J ", "<>", 100 letters, 101 letters,
\* 99 letters and two blanks, a blank and 100 letters
ValidateNames ==
    {<<>>, <<(<<>>)>>, <<Letters(1)>>, <<Letters(2)>>,
     <<(<<<<" ", 1>>, <<"a", 1>>, <<" ", 1>>>>)>>,
     <<(<<<<"<", 2>>>>)>>,
     <<Letters(100)>>, <<Letters(101)>>,
     <<(<<<<"a", 99>>, <<" ", 2>>>>)>>,
     <<(<<<<" ", 1>>, <<"a", 100>>>>)>>}

ValidateProfileInputs ==
    { Obj(raw) : raw \in
        [name : ValidateNames,
         age : {<<>>, <<0>>, <<15>>, <<16>>, <<60>>, <<61>>},
         bloodType : {<<>>, <<"">>, <<"X">>, <<"o+">>}
                         \cup {<<b>> : b \in BloodTypes}] }

ValidateMetricsInputs ==
    { Obj(raw) : raw \in
        [bloodPressureSystolic : {<<>>, <<0>>, <<69>>, <<70>>, <<190>>, <<191>>},
         bloodPressureDiastolic : {<<>>, <<0>>, <<39>>, <<40>>, <<120>>, <<121>>},
         bloodSugar : {<<>>, <<0>>, <<29>>, <<30>>, <<500>>, <<501>>}] }

InitValidate ==
    /\ Idle
    /\ build \in {"v1.0.0", "v1.1.0"}
    /\ call \in {Pending("validateProfile", p) : p \in ValidateProfileInputs}
           \cup {Pending("validateHealthMetrics", m) : m \in ValidateMetricsInputs}

validateProfile(profile) ==
    IF build = "v1.0.0" THEN validateProfileV10(profile)
    ELSE validateProfileV11(profile)

validateHealthMetrics(metrics) ==
    IF build = "v1.0.0" THEN validateHealthMetricsV10(metrics)
    ELSE validateHealthMetricsV11(metrics)

CallValidateProfile ==
    /\ call.fn = "validateProfile"
    /\ ~Has(call, "ret")
    /\ call' = Returned(call, validateProfile(call.arg))
    /\ UNCHANGED <<build, stores, uuidCount, response>>

CallValidateHealthMetrics ==
    /\ call.fn = "validateHealthMetrics"
    /\ ~Has(call, "ret")
    /\ call' = Returned(call, validateHealthMetrics(call.arg))
    /\ UNCHANGED <<build, stores, uuidCount, response>>

NextValidate == CallValidateProfile \/ CallValidateHealthMetrics

SpecValidate == InitValidate /\ [][NextValidate]_vars

(***************************************************************************)
(* Steps of the two routes, whichever build serves them.                   *)
(***************************************************************************)
CreateProfileStep(role, body) ==
    CreateProfileV10(body) \/ CreateProfileV11(role, body)

RecordMetricsStep(role, body) ==
    RecordMetricsV10(body) \/ RecordMetricsV11(role, body)

ValidationMessages ==
    {"Name must be at least 2 characters long",
     "Name must be between 2 and 100 characters",
     "Age must be between 16 and 60",
     "Invalid blood type",
     "Invalid date format for dueDate",
     "Invalid systolic blood pressure range",
     "Invalid diastolic blood pressure range",
     "Invalid blood sugar range"}

\* The request was turned away before its references were looked at.
TurnedAway(r) ==
    \/ r.status = 403
    \/ r.status = 400 /\ r.error \in ValidationMessages

ProviderAbsent(id) == id \notin DOMAIN providerStorage

ProviderInactive(id) ==
    id \in DOMAIN providerStorage /\ ~providerStorage[id].isActive

(***************************************************************************)
(* C4: createProfile with a primaryCareProviderId that names no provider,  *)
(* or an inactive one, answers with an error (not found for the absent     *)
(* provider, a precondition error for the inactive one) and leaves the     *)
(* Profiles collection as it was.                                          *)
(***************************************************************************)
C4_NoProfileWithoutActiveProvider ==
    [][\A role \in Roles, body \in ProfileBodies :
         LET pid == body.primaryCareProviderId
         IN  (response'.op = "createProfile"
                 /\ (ProviderAbsent(pid) \/ ProviderInactive(pid))
                 /\ CreateProfileStep(role, body))
             => /\ response'.status # 200
                /\ \/ TurnedAway(response')
                   \/ ProviderAbsent(pid) /\ response'.status = 404
                   \/ ProviderInactive(pid)
                        /\ response'.error = "Selected healthcare provider is not active"
                /\ maternalProfileStorage' = maternalProfileStorage]_vars

(***************************************************************************)
(* C2: a successful recordMetrics whose metrics assess as high-risk adds   *)
(* exactly one alert, with severity HIGH, resolved false, resolvedAt null, *)
(* escalationLevel 1, the metrics' maternalProfileId, and the recording    *)
(* provider as providerId.                                                 *)
(***************************************************************************)
IsHighRiskAlertFor(alert, body) ==
    /\ alert.severity = "HIGH"
    /\ alert.resolved = FALSE
    /\ alert.resolvedAt = null
    /\ alert.escalationLevel = 1
    /\ Has(alert, "maternalProfileId")
    /\ alert.maternalProfileId = body.maternalProfileId
    /\ Has(alert, "providerId")
    /\ alert.providerId = body.recordedById

C2_HighRiskAddsOneAlert ==
    [][\A role \in Roles, body \in MetricsBodies :
         (response'.op = "recordMetrics" /\ response'.status = 200
             /\ assessRisk(body) /\ RecordMetricsStep(role, body))
         => LET added == (DOMAIN alertStorage') \ (DOMAIN alertStorage)
            IN  /\ Cardinality(added) = 1
                /\ \A k \in DOMAIN alertStorage : alertStorage'[k] = alertStorage[k]
                /\ \A k \in added : IsHighRiskAlertFor(alertStorage'[k], body)]_vars

(***************************************************************************)
(* C3: every stored HealthMetrics record is flagged for review exactly     *)
(* when assessRisk calls it high-risk, whatever the request carried.       *)
(***************************************************************************)
C3_FlaggedIffHighRisk ==
    \A k \in DOMAIN metricsStorage :
        metricsStorage[k].isFlaggedForReview = assessRisk(metricsStorage[k])

(***************************************************************************)
(* C5: recordMetrics with a maternalProfileId that is no key of Profiles   *)
(* answers not found and writes neither Metrics nor Alerts; so every       *)
(* stored metrics record and alert refers to a profile that exists.        *)
(***************************************************************************)
RefersToProfile(record) ==
    /\ Has(record, "maternalProfileId")
    /\ record.maternalProfileId \in DOMAIN maternalProfileStorage

ReferencesResolve ==
    /\ \A k \in DOMAIN metricsStorage : RefersToProfile(metricsStorage[k])
    /\ \A k \in DOMAIN alertStorage : RefersToProfile(alertStorage[k])

C5_UnknownProfileWritesNothing ==
    [][/\ \A role \in Roles, body \in MetricsBodies :
            (response'.op = "recordMetrics"
                /\ body.maternalProfileId \notin DOMAIN maternalProfileStorage
                /\ RecordMetricsStep(role, body))
            => /\ TurnedAway(response') \/ response'.status = 404
               /\ metricsStorage' = metricsStorage
               /\ alertStorage' = alertStorage
       /\ ReferencesResolve']_vars

(***************************************************************************)
(* C6: a createProfile or recordMetrics request that ends in an error      *)
(* response leaves all five collections exactly as they were.              *)
(***************************************************************************)
C6_ErrorCommitsNothing ==
    [][(response'.op \in {"createProfile", "recordMetrics"}
           /\ response'.status # 200)
       => stores' = stores]_vars

(***************************************************************************)
(* C7: every stored systolic BP is in [70,190], diastolic BP in [40,120]   *)
(* and blood sugar in [30,500]; recordMetrics rejects an input with a      *)
(* supplied value outside these ranges, 0 included, and stores nothing.    *)
(***************************************************************************)
InRange(o, k, low, high) == Has(o, k) => (low <= o[k] /\ o[k] <= high)

ClinicalRanges(o) ==
    /\ InRange(o, "bloodPressureSystolic", 70, 190)
    /\ InRange(o, "bloodPressureDiastolic", 40, 120)
    /\ InRange(o, "bloodSugar", 30, 500)

C7_StoredMetricsInRange ==
    [][/\ \A role \in Roles, body \in MetricsBodies :
            (response'.op = "recordMetrics" /\ ~ClinicalRanges(body)
                /\ RecordMetricsStep(role, body))
            => (response'.status # 200 /\ metricsStorage' = metricsStorage)
       /\ \A k \in DOMAIN metricsStorage' : ClinicalRanges(metricsStorage'[k])]_vars

(***************************************************************************)
(* C8: createProfile with a valid input that names an existing active      *)
(* provider succeeds, and the profile it writes has riskLevel LOW and      *)
(* currentTrimester FIRST.                                                 *)
(***************************************************************************)
NameRule(p) ==
    /\ Has(p, "name")
    /\ 2 <= StrLen(Trim(p.name))
    /\ StrLen(Trim(p.name)) <= 100

AgeRule(p) == Has(p, "age") /\ 16 <= p.age /\ p.age <= 60

BloodTypeRule(p) == Has(p, "bloodType") /\ p.bloodType \in BloodTypes

DueDateRule(p) == Has(p, "dueDate") /\ DateGetTime(p.dueDate) # <<>>

ValidProfileInput(p) ==
    NameRule(p) /\ AgeRule(p) /\ BloodTypeRule(p) /\ DueDateRule(p)

ProviderActive(id) == id \in DOMAIN providerStorage /\ providerStorage[id].isActive

C8_ProfileDefaults ==
    [][\A body \in ProfileBodies :
         (response'.op = "createProfile"
             /\ ValidProfileInput(body)
             /\ ProviderActive(body.primaryCareProviderId)
             /\ CreateProfileStep("admin", body))
         => /\ response'.status = 200
            /\ \E k \in DOMAIN maternalProfileStorage' :
                 LET written == maternalProfileStorage'[k]
                 IN  /\ k \notin DOMAIN maternalProfileStorage
                     /\ Has(written, "riskLevel")
                     /\ written.riskLevel = "LOW"
                     /\ Has(written, "currentTrimester")
                     /\ written.currentTrimester = "FIRST"]_vars

(***************************************************************************)
(* C9: only active providers record metrics: every stored HealthMetrics    *)
(* record was recorded by a provider that is in Providers and active, and  *)
(* recordMetrics by an absent or inactive provider stores nothing.         *)
(***************************************************************************)
RecordedByActive(metrics) ==
    Has(metrics, "recordedById") /\ ProviderActive(metrics.recordedById)

C9_OnlyActiveProvidersRecord ==
    [][/\ \A role \in Roles, body \in MetricsBodies :
            (response'.op = "recordMetrics" /\ ~ProviderActive(body.recordedById)
                /\ RecordMetricsStep(role, body))
            => metricsStorage' = metricsStorage
       /\ \A k \in DOMAIN metricsStorage' : RecordedByActive(metricsStorage'[k])]_vars

(***************************************************************************)
(* C10, as claimed: validateProfile checks name, then age, then blood type *)
(* and gives the reason of the first rule violated; it answers valid       *)
(* exactly when the name is present with length in [2,100], the age is in  *)
(* [16,60] and the blood type is one of the 8.  validateHealthMetrics      *)
(* checks systolic before diastolic before blood sugar and reports the     *)
(* first violation only.                                                   *)
(***************************************************************************)
NameMessage ==
    IF build = "v1.0.0" THEN "Name must be at least 2 characters long"
    ELSE "Name must be between 2 and 100 characters"

\* The first of the three rules the profile breaks decides the answer.
ProfileRulesInOrder(nameOk, ageOk, bloodTypeOk) ==
    /\ ~nameOk => call.ret = NameMessage
    /\ (nameOk /\ ~ageOk) => call.ret = "Age must be between 16 and 60"
    /\ (nameOk /\ ageOk /\ ~bloodTypeOk) => call.ret = "Invalid blood type"
    /\ (call.ret = null) = (nameOk /\ ageOk /\ bloodTypeOk)

\* The record with property k alone, and whether the validator turns it down.
Only(m, k) == [j \in (DOMAIN m) \cap {k} |-> m[j]]

Rejects(m, k) == validateHealthMetrics(Only(m, k)) # null

MetricsChecksInOrder ==
    LET m == call.arg
        systolic == Rejects(m, "bloodPressureSystolic")
        diastolic == Rejects(m, "bloodPressureDiastolic")
        sugar == Rejects(m, "bloodSugar")
    IN  /\ systolic => call.ret = "Invalid systolic blood pressure range"
        /\ (~systolic /\ diastolic)
              => call.ret = "Invalid diastolic blood pressure range"
        /\ (~systolic /\ ~diastolic /\ sugar)
              => call.ret = "Invalid blood sugar range"
        /\ (~systolic /\ ~diastolic /\ ~sugar) => call.ret = null

C10_FirstViolatedRuleWins ==
    /\ HasReturned("validateProfile") =>
          ProfileRulesInOrder(NameRule(call.arg), AgeRule(call.arg),
                              BloodTypeRule(call.arg))
    /\ HasReturned("validateHealthMetrics") => MetricsChecksInOrder

(***************************************************************************)
(* C10, amended: the same order and the same first-reason-only answers,    *)
(* with the name rule as each build has it: the name is present with       *)
(* trimmed length at least 2 and, in v1.1.0 only, untrimmed length at most *)
(* 100 (v1.0.0 sets no upper limit; only v1.0.0 checks blood sugar).       *)
(***************************************************************************)
NameAccepted(p) ==
    /\ Has(p, "name")
    /\ 2 <= StrLen(Trim(p.name))
    /\ build = "v1.1.0" => StrLen(p.name) <= 100

C10_FirstViolatedRuleWinsPerBuild ==
    /\ HasReturned("validateProfile") =>
          ProfileRulesInOrder(NameAccepted(call.arg), AgeRule(call.arg),
                              BloodTypeRule(call.arg))
    /\ HasReturned("validateHealthMetrics") => MetricsChecksInOrder

\* age 15 under a valid name and an invalid blood type: the age is reported.
C10_Witness ==
    /\ HasReturned("validateProfile")
    /\ call.arg = [name |-> Letters(2), age |-> 15, bloodType |-> "X"]
    /\ call.ret = "Age must be between 16 and 60"

(***************************************************************************)
(* C11: the alerts number as many as the successful recordMetrics requests *)
(* whose metrics assessed as high-risk: each such request adds one more    *)
(* alert beside the ones already there (none is merged into an open one),  *)
(* and a recording that assesses as normal, or fails, adds none.           *)
(***************************************************************************)
AlertsKept ==
    \A k \in DOMAIN alertStorage :
        k \in DOMAIN alertStorage' /\ alertStorage'[k] = alertStorage[k]

C11_OneAlertPerHighRiskRecording ==
    [][\A role \in Roles, body \in MetricsBodies :
         (response'.op = "recordMetrics" /\ RecordMetricsStep(role, body))
         => /\ AlertsKept
            /\ Cardinality(DOMAIN alertStorage')
                 = Cardinality(DOMAIN alertStorage)
                     + (IF response'.status = 200 /\ assessRisk(body)
                        THEN 1 ELSE 0)]_vars

(***************************************************************************)
(* C12: a successful createProfile or recordMetrics stores its record      *)
(* under an identifier the generator produced for it, which was no key of  *)
(* the collection before, whatever the body carries (an id included): the  *)
(* collection grows by exactly that one record and no record that was      *)
(* there is overwritten or altered.                                        *)
(***************************************************************************)
\* The identifiers uuidv4() hands out during the step.
Generated == (uuidCount + 1) .. uuidCount'

GrowsByOneGenerated(before, after) ==
    \E k \in Generated :
        /\ k \notin DOMAIN before
        /\ DOMAIN after = (DOMAIN before) \cup {k}
        /\ \A j \in DOMAIN before : after[j] = before[j]

C12_CreateUnderFreshIdentifier ==
    [][/\ (response'.op = "createProfile" /\ response'.status = 200)
            => GrowsByOneGenerated(maternalProfileStorage, maternalProfileStorage')
       /\ (response'.op = "recordMetrics" /\ response'.status = 200)
            => GrowsByOneGenerated(metricsStorage, metricsStorage')]_vars

====
